---- MODULE Spec2Model ----
(***************************************************************************)
(* A model of puppeteer-cli (src/index.js): the two command handlers,      *)
(* print and screenshot, as a sequence of browser-engine calls.            *)
(*                                                                         *)
(* An async function runs atomically from one await to the next, so there  *)
(* is one action per such segment: it resumes from the call awaited at pc, *)
(* runs the synchronous code that follows and issues the next call.        *)
(* A rejected call is the action Reject (the handler's catch).             *)
(*                                                                         *)
(* JavaScript values are records tagged with their type; a string is a     *)
(* sequence of one-character strings, so that indexOf, substr, the regular *)
(* expressions and the spread of a string are computed, not assumed.       *)
(***************************************************************************)
EXTENDS Integers, Sequences, FiniteSets, TLC

VARIABLES
    argv,       \* the parsed options handed to the handler
    cwd,        \* the process's working directory (read by file-url)
    pc,         \* the engine call the command is awaiting, or start / exited
    sjs,        \* the promise of the un-awaited page.setJavaScriptEnabled
    calls,      \* every engine call issued so far, in order
    failed,     \* the engine calls that failed, each with Len(calls) then
    docHeight,  \* the document height of the loaded page (0: nothing loaded)
    height,     \* print's local `height`
    width,      \* print's local `width`
    stdout,     \* buffers written to process.stdout
    stderr,     \* lines written with console.error
    files,      \* paths the render operation wrote
    thrown,     \* the error the command threw synchronously, if any
    exitCode    \* the process's exit status

vars == <<argv, cwd, pc, sjs, calls, failed, docHeight, height, width,
          stdout, stderr, files, thrown, exitCode>>

----------------------------------------------------------------------------
(* JavaScript values *)

Undefined == [t |-> "undefined"]
Null == [t |-> "null"]
Str(s) == [t |-> "string", s |-> s]
Arr(a) == [t |-> "array", a |-> a]
Num(n) == [t |-> "number", n |-> n]

\* ToBoolean, as used by `if (x)`, `!x` and `x || y`
Truthy(v) ==
    CASE v.t = "string" -> Len(v.s) > 0
      [] v.t = "array" -> TRUE
      [] v.t = "number" -> v.n # 0
      [] OTHER -> FALSE

\* x || null
OrNull(v) == IF Truthy(v) THEN v ELSE Null

----------------------------------------------------------------------------
(* Bounds *)

MaxCookies == 2     \* at most this many --cookie options on a command line
MaxHeight == 2      \* document heights range over 1..MaxHeight

----------------------------------------------------------------------------
(* String primitives (a string is a sequence of one-character strings) *)

UpperLetters == <<"A","B","C","D","E","F","G","H","I","J","K","L","M",
                  "N","O","P","Q","R","S","T","U","V","W","X","Y","Z">>
LowerLetters == <<"a","b","c","d","e","f","g","h","i","j","k","l","m",
                  "n","o","p","q","r","s","t","u","v","w","x","y","z">>
Digits == <<"0","1","2","3","4","5","6","7","8","9">>

Range(f) == {f[i] : i \in DOMAIN f}

UpperSet == Range(UpperLetters)
DigitSet == Range(Digits)
WordSet == UpperSet \cup Range(LowerLetters) \cup DigitSet \cup {"_"}

IsDigit(c) == c \in DigitSet                            \* \d
IsSpace(c) == c = " "                                   \* \s
IsWordChar(c) == c \in WordSet                          \* \w

\* String.prototype.toLowerCase on one character
LowerChar(c) ==
    IF c \in UpperSet
    THEN LowerLetters[CHOOSE i \in DOMAIN UpperLetters : UpperLetters[i] = c]
    ELSE c

ToLowerCase(s) == [i \in DOMAIN s |-> LowerChar(s[i])]

\* String.prototype.indexOf(c): 0-based offset of the first c, -1 if none
IndexOf(s, c) ==
    IF \E i \in DOMAIN s : s[i] = c
    THEN (CHOOSE i \in DOMAIN s : s[i] = c /\ \A j \in 1..(i - 1) : s[j] # c) - 1
    ELSE -1

\* String.prototype.substr(from, n) and substr(from), 0-based
Substr(s, from, n) == SubSeq(s, from + 1, from + n)
SubstrFrom(s, from) == SubSeq(s, from + 1, Len(s))

StartsWith(s, p) == Len(s) >= Len(p) /\ SubSeq(s, 1, Len(p)) = p

RECURSIVE Concat(_)
Concat(ss) == IF ss = <<>> THEN <<>> ELSE Head(ss) \o Concat(Tail(ss))

\* parseInt of a string of decimal digits
RECURSIVE ParseInt(_)
ParseInt(s) ==
    IF s = <<>> THEN 0
    ELSE 10 * ParseInt(SubSeq(s, 1, Len(s) - 1))
         + (CHOOSE i \in DOMAIN Digits : Digits[i] = s[Len(s)]) - 1

----------------------------------------------------------------------------
(* Target resolution: is-url, url-parse and file-url as index.js uses them *)

\* is-url: /^(?:\w+:)?\/\/(\S+)$/ on the whole string, then the part after
\* the slashes against /^localhost[\:?\d]*(?:[^\:?\d]\S*)?$/ or
\* /^[^\s\.]+\.\S{2,}$/.  AfterProtocol is the offset of the "//", or -1.
AfterProtocol(s) ==
    IF StartsWith(s, <<"/", "/">>) THEN 0
    ELSE LET k == IndexOf(s, ":")
         IN IF /\ k >= 1
               /\ \A i \in 1..k : IsWordChar(s[i])
               /\ StartsWith(SubstrFrom(s, k + 1), <<"/", "/">>)
            THEN k + 1
            ELSE -1

LocalhostDomain(d) == StartsWith(d, <<"l","o","c","a","l","h","o","s","t">>)

NonLocalhostDomain(d) ==
    LET dot == IndexOf(d, ".")
    IN dot >= 1 /\ Len(d) - (dot + 1) >= 2

isUrl(s) ==
    LET p == AfterProtocol(s)
    IN /\ p # -1
       /\ LET d == SubstrFrom(s, p + 2)
          IN /\ d # <<>>
             /\ \A i \in DOMAIN d : ~IsSpace(d[i])
             /\ (LocalhostDomain(d) \/ NonLocalhostDomain(d))

\* url-parse's parse followed by toString, for an address is-url accepted:
\* the protocol and the host are lower-cased, the rest is kept.  (The
\* addresses of TargetArgs carry no credentials, no port and a non-empty
\* path, the parts whose re-serialisation differs between url-parse releases.)
parseUrlToString(s) ==
    LET p == AfterProtocol(s)
        ends == {i \in (p + 3)..Len(s) : s[i] \in {"/", "?", "#"}}
        e == IF ends = {} THEN Len(s) + 1
             ELSE CHOOSE i \in ends : \A j \in ends : i <= j
    IN ToLowerCase(SubSeq(s, 1, e - 1)) \o SubSeq(s, e, Len(s))

\* path.resolve(filePath) against the working directory (the paths of
\* TargetArgs hold no "." or ".." segment)
PathResolve(dir, p) ==
    IF p # <<>> /\ p[1] = "/" THEN p
    ELSE IF p = <<>> THEN dir
    ELSE IF dir = <<"/">> THEN dir \o p
    ELSE dir \o <<"/">> \o p

\* encodeURI(...).replace(/[?#]/g, encodeURIComponent) on one character
EncodeChar(c) ==
    CASE c = " " -> <<"%", "2", "0">>
      [] c = "%" -> <<"%", "2", "5">>
      [] c = "?" -> <<"%", "3", "F">>
      [] c = "#" -> <<"%", "2", "3">>
      [] OTHER -> <<c>>

\* file-url: resolve, prefix a slash if none, "file://" + path, escape
fileUrl(dir, p) ==
    LET r == PathResolve(dir, p)
        abs == IF r # <<>> /\ r[1] = "/" THEN r ELSE <<"/">> \o r
        raw == <<"f","i","l","e",":","/","/">> \o abs
    IN Concat([i \in DOMAIN raw |-> EncodeChar(raw[i])])

\* const url = isUrl(argv.url) ? parseUrl(argv.url).toString() : fileUrl(argv.url)
ResolveUrlRaw(a, dir) ==
    IF isUrl(a.url.s) THEN Str(parseUrlToString(a.url.s)) ELSE a.url

ResolveUrl(a, dir) ==
    IF isUrl(a.url.s) THEN Str(parseUrlToString(a.url.s))
    ELSE Str(fileUrl(dir, a.url.s))

----------------------------------------------------------------------------
(* Cookie and viewport parsing *)

\* [...cookie]: the elements of an array, the characters of a string
Spread(v) ==
    CASE v.t = "array" -> v.a
      [] v.t = "string" -> [i \in DOMAIN v.s |-> Str(<<v.s[i]>>)]
      [] OTHER -> <<>>

\* the callback of buildCookies' map, for a string that has a delimiter
CookieRecord(cookieString, url) ==
    LET delimiterOffset == IndexOf(cookieString.s, ":")
    IN [name |-> Str(Substr(cookieString.s, 0, delimiterOffset)),
        value |-> Str(SubstrFrom(cookieString.s, delimiterOffset + 1)),
        url |-> url]

\* buildCookies({ url, cookie }): the records, or the Error it throws
buildCookies(a) ==
    LET items == Spread(a.cookie)
    IN IF \E i \in DOMAIN items : IndexOf(items[i].s, ":") = -1
       THEN [threw |-> TRUE, cookies |-> <<>>]
       ELSE [threw |-> FALSE,
             cookies |-> [i \in DOMAIN items |-> CookieRecord(items[i], a.url)]]

\* argv.viewport.match(/^(?<width>\d+)[xX](?<height>\d+)$/): the groups, or
\* no match
FormatMatch(s) ==
    LET seps == {i \in DOMAIN s : ~IsDigit(s[i])}
    IN IF /\ Cardinality(seps) = 1
          /\ \E i \in seps : s[i] \in {"x", "X"} /\ i > 1 /\ i < Len(s)
       THEN LET i == CHOOSE j \in seps : TRUE
            IN [matched |-> TRUE,
                width |-> SubSeq(s, 1, i - 1),
                height |-> SubSeq(s, i + 1, Len(s))]
       ELSE [matched |-> FALSE, width |-> <<>>, height |-> <<>>]

----------------------------------------------------------------------------
(* The command lines explored *)

Auto == Str(<<"a","u","t","o">>)

\* <url>: two addresses is-url accepts (one already in url-parse's
\* serialised form, one not) and three file paths
TargetArgs ==
    { Str(<<"h","t","t","p",":","/","/","a",".","i","o","/","p">>),
      Str(<<"H","T","T","P",":","/","/","A",".","i","o","/","P">>),
      Str(<<"p",".","h","t","m">>),
      Str(<<"/","p",".","h","t","m">>),
      Str(<<"a"," ","b">>) }

Cwds == { <<"/">>, <<"/","w">> }

\* [output]: absent, the empty string, a file name
OutputArgs == { Undefined, Str(<<>>), Str(<<"o">>) }

\* the values a --cookie option is given
CookieStrings ==
    { Str(<<>>), Str(<<"a">>), Str(<<"a",":","b">>),
      Str(<<"a",":","b",":","c">>) }

\* yargs, type 'string': no --cookie leaves the option undefined, one gives
\* the string, several give the array of strings
CookieArgs ==
    {Undefined} \cup CookieStrings
    \cup UNION {{Arr(a) : a \in [1..n -> CookieStrings]} : n \in 2..MaxCookies}

\* --viewport: absent, or a string
ViewportArgs ==
    { Undefined, Str(<<>>), Str(<<"8","0","x","6","0">>),
      Str(<<"8","0","X","6","0">>), Str(<<"8","0","x">>),
      Str(<<"x","6","0">>), Str(<<"a","x","b">>) }

FormatArgs == { Auto, Str(<<"A","4">>) }
InjectJsArgs == { Str(<<>>), Str(<<"j">>) }
EmulateMediaArgs == { Str(<<>>), Str(<<"s","c","r","e","e","n">>) }

PrintArgvs ==
    [cmd : {"print"}, url : TargetArgs, output : OutputArgs, cookie : CookieArgs,
     viewport : {Undefined}, format : FormatArgs, injectJs : InjectJsArgs,
     emulateMedia : EmulateMediaArgs]

ScreenshotArgvs ==
    [cmd : {"screenshot"}, url : TargetArgs, output : OutputArgs,
     cookie : CookieArgs, viewport : ViewportArgs, format : {Undefined},
     injectJs : {Undefined}, emulateMedia : {Undefined}]

Init ==
    /\ argv \in PrintArgvs \cup ScreenshotArgvs
    /\ cwd \in Cwds
    /\ pc = "start"
    /\ sjs = "none"
    /\ calls = <<>>
    /\ failed = <<>>
    /\ docHeight = 0
    /\ height = Undefined
    /\ width = Undefined
    /\ stdout = <<>>
    /\ stderr = <<>>
    /\ files = {}
    /\ thrown = "none"
    /\ exitCode = 0

----------------------------------------------------------------------------
(* Pieces the two commands share *)

Heights == 1..MaxHeight

\* the engine calls a command awaits; pc names the one in flight
Awaited ==
    {"launch", "newPage", "setViewport", "setCookie", "goto", "evalHeight",
     "evalScripts", "evalInject", "emulateMedia", "pdf", "screenshot", "close"}

\* the label of the handler's catch
FailPrefix(a) ==
    IF a.cmd = "print" THEN "Failed to generate pdf:"
    ELSE "Failed to take screenshot:"

\* path: argv.output || null
RenderPath(a) == OrNull(a.output)

\* if (!argv.output) process.stdout.write(buffer)
WritesStdoutAlways(a) == TRUE

WritesStdout(a) == ~Truthy(a.output)

\* console.error(`Writing ${argv.output || 'STDOUT'}`)
WritingLine(a) == IF Truthy(a.output) THEN "Writing file" ELSE "Writing STDOUT"

\* if (argv.cookie) { setCookie(...buildCookies(argv)) }; goto(url, ...):
\* from the cookie test to the next await, or to the catch when buildCookies
\* throws.  `cs` and `es` are calls and stderr as the segment has them.
CookieThenGoto(cs, es) ==
    IF Truthy(argv.cookie)
    THEN LET r == buildCookies(argv)
         IN IF r.threw
            THEN /\ calls' = cs
                 /\ stderr' = es \o <<"Setting cookies", FailPrefix(argv)>>
                 /\ thrown' = "cookie must contain : delimiter"
                 /\ pc' = "exited"
                 /\ exitCode' = 1
            ELSE /\ calls' = Append(cs, [op |-> "setCookie", arg |-> r.cookies])
                 /\ stderr' = Append(es, "Setting cookies")
                 /\ pc' = "setCookie"
                 /\ UNCHANGED <<thrown, exitCode>>
    ELSE /\ calls' = Append(cs, [op |-> "goto", arg |-> ResolveUrl(argv, cwd)])
         /\ stderr' = Append(es, "Loading")
         /\ pc' = "goto"
         /\ UNCHANGED <<thrown, exitCode>>

\* await page.setCookie(...) resolved: console.error(`Loading ${url}`), goto
AfterSetCookie ==
    /\ pc = "setCookie"
    /\ calls' = Append(calls, [op |-> "goto", arg |-> ResolveUrl(argv, cwd)])
    /\ stderr' = Append(stderr, "Loading")
    /\ pc' = "goto"
    /\ UNCHANGED <<argv, cwd, sjs, failed, docHeight, height, width, stdout,
                   files, thrown, exitCode>>

\* console.error('Done'); await browser.close()
DoneThenClose(es) ==
    /\ calls' = Append(calls, [op |-> "close", arg |-> Null])
    /\ stderr' = Append(es, "Done")
    /\ pc' = "close"

\* the render call resolved: the engine wrote the file if it was given a
\* path; then the stdout branch, and on to close
AfterRender(renderPc) ==
    /\ pc = renderPc
    /\ LET path == calls[Len(calls)].arg.path
           buffer == [kind |-> renderPc]
       IN /\ files' = IF path = Null THEN files ELSE files \cup {path}
          /\ IF WritesStdout(argv)
             THEN /\ stdout' = Append(stdout, buffer)
                  /\ pc' = "stdoutWrite"
                  /\ UNCHANGED <<calls, stderr>>
             ELSE /\ DoneThenClose(stderr)
                  /\ UNCHANGED stdout
    /\ UNCHANGED <<argv, cwd, sjs, failed, docHeight, height, width, thrown,
                   exitCode>>

\* await process.stdout.write(buffer): write returned, the await resumes
AfterStdoutWrite ==
    /\ pc = "stdoutWrite"
    /\ DoneThenClose(stderr)
    /\ UNCHANGED <<argv, cwd, sjs, failed, docHeight, height, width, stdout,
                   files, thrown, exitCode>>

\* await browser.close() resolved: the command returns, the handler returns
\* and the process ends with its default status
AfterClose ==
    /\ pc = "close"
    /\ pc' = "exited"
    /\ UNCHANGED <<argv, cwd, sjs, calls, failed, docHeight, height, width,
                   stdout, stderr, files, thrown, exitCode>>

\* the awaited call rejected: catch (err) { console.error(prefix, err);
\* process.exit(1) }
Reject ==
    /\ pc \in Awaited
    /\ failed' = Append(failed, [op |-> pc, at |-> Len(calls)])
    /\ stderr' = Append(stderr, FailPrefix(argv))
    /\ pc' = "exited"
    /\ exitCode' = 1
    /\ UNCHANGED <<argv, cwd, sjs, calls, docHeight, height, width, stdout,
                   files, thrown>>

----------------------------------------------------------------------------
(* print *)

\* page.pdf({ path, format, width, height, ... })
PdfCall(a, h, w) ==
    [op |-> "pdf",
     arg |-> [path |-> RenderPath(a),
              format |-> IF a.format = Auto THEN Undefined ELSE a.format,
              width |-> w,
              height |-> h]]

\* where print awaits next, from each of its conditional steps on
AfterInjectTarget(a) == IF Truthy(a.emulateMedia) THEN "emulateMedia" ELSE "pdf"
AfterHeightTarget(a) == IF Truthy(a.injectJs) THEN "evalScripts" ELSE AfterInjectTarget(a)
AfterGotoTarget(a) == IF a.format = Auto THEN "evalHeight" ELSE AfterHeightTarget(a)

\* the call print issues on reaching the await named `target`, with the
\* locals height and width as they then are
PrintCall(target, a, h, w) ==
    CASE target = "evalHeight" -> [op |-> "evaluate", arg |-> [script |-> "Math.max(heights)"]]
      [] target = "evalScripts" -> [op |-> "evaluate", arg |-> [script |-> "script#before, script#after"]]
      [] target = "evalInject" -> [op |-> "evaluate", arg |-> [script |-> "before;injectJs;after"]]
      [] target = "emulateMedia" -> [op |-> "emulateMedia", arg |-> a.emulateMedia]
      [] target = "pdf" -> PdfCall(a, h, w)

PrintIssue(target, h, w) ==
    /\ calls' = Append(calls, PrintCall(target, argv, h, w))
    /\ pc' = target

\* const browser = await puppeteer.launch(buildLaunchOptions(argv))
PrintStart ==
    /\ argv.cmd = "print"
    /\ pc = "start"
    /\ calls' = Append(calls, [op |-> "launch", arg |-> Null])
    /\ pc' = "launch"
    /\ UNCHANGED <<argv, cwd, sjs, failed, docHeight, height, width, stdout,
                   stderr, files, thrown, exitCode>>

\* const page = await browser.newPage()
PrintAfterLaunch ==
    /\ argv.cmd = "print"
    /\ pc = "launch"
    /\ calls' = Append(calls, [op |-> "newPage", arg |-> Null])
    /\ pc' = "newPage"
    /\ UNCHANGED <<argv, cwd, sjs, failed, docHeight, height, width, stdout,
                   stderr, files, thrown, exitCode>>

\* page.setJavaScriptEnabled(false), not awaited; the url; the cookies; goto
PrintAfterNewPage ==
    /\ argv.cmd = "print"
    /\ pc = "newPage"
    /\ sjs' = "pending"
    /\ CookieThenGoto(Append(calls, [op |-> "setJavaScriptEnabled", arg |-> FALSE]),
                      stderr)
    /\ UNCHANGED <<argv, cwd, failed, docHeight, height, width, stdout, files>>

\* await page.goto(...) resolved, the page is loaded: `Writing ...`, then
\* the first of the height evaluation, the script evaluation, emulateMedia
\* and pdf that applies
PrintAfterGoto ==
    /\ argv.cmd = "print"
    /\ pc = "goto"
    /\ \E h \in Heights : docHeight' = h
    /\ stderr' = Append(stderr, WritingLine(argv))
    /\ PrintIssue(AfterGotoTarget(argv), height, width)
    /\ UNCHANGED <<argv, cwd, sjs, failed, height, width, stdout, files,
                   thrown, exitCode>>

\* height = await page.evaluate('Math.max(...)'); width = '1366'
PrintAfterEvalHeight ==
    /\ pc = "evalHeight"
    /\ height' = Num(docHeight)
    /\ width' = Str(<<"1","3","6","6">>)
    /\ PrintIssue(AfterHeightTarget(argv), height', width')
    /\ UNCHANGED <<argv, cwd, sjs, failed, docHeight, stdout, stderr, files,
                   thrown, exitCode>>

\* { scriptBefore, scriptAfter } = await page.evaluate(...) resolved:
\* await page.evaluate(`${scriptBefore};${argv.injectJs};${scriptAfter}`)
PrintAfterEvalScripts ==
    /\ pc = "evalScripts"
    /\ PrintIssue("evalInject", height, width)
    /\ UNCHANGED <<argv, cwd, sjs, failed, docHeight, height, width, stdout,
                   stderr, files, thrown, exitCode>>

\* the injected script has run in the page and may have changed the document
PrintAfterEvalInject ==
    /\ pc = "evalInject"
    /\ \E h \in Heights : docHeight' = h
    /\ PrintIssue(AfterInjectTarget(argv), height, width)
    /\ UNCHANGED <<argv, cwd, sjs, failed, height, width, stdout, stderr,
                   files, thrown, exitCode>>

\* await page.emulateMedia(...) resolved: page.pdf
PrintAfterEmulateMedia ==
    /\ pc = "emulateMedia"
    /\ PrintIssue("pdf", height, width)
    /\ UNCHANGED <<argv, cwd, sjs, failed, docHeight, height, width, stdout,
                   stderr, files, thrown, exitCode>>

PrintAfterPdf == AfterRender("pdf")

\* The promise of setJavaScriptEnabled settles while print runs on.  Nothing
\* handles its rejection: the runtime either reports it and carries on, or
\* ends the process with status 1 (its unhandled-rejections mode).
SjsResolve ==
    /\ sjs = "pending"
    /\ pc # "exited"
    /\ sjs' = "resolved"
    /\ UNCHANGED <<argv, cwd, pc, calls, failed, docHeight, height, width,
                   stdout, stderr, files, thrown, exitCode>>

SjsRejectWarn ==
    /\ sjs = "pending"
    /\ pc # "exited"
    /\ sjs' = "rejected"
    /\ failed' = Append(failed, [op |-> "setJavaScriptEnabled", at |-> Len(calls)])
    /\ stderr' = Append(stderr, "UnhandledPromiseRejectionWarning")
    /\ UNCHANGED <<argv, cwd, pc, calls, docHeight, height, width, stdout,
                   files, thrown, exitCode>>

SjsRejectCrash ==
    /\ sjs = "pending"
    /\ pc # "exited"
    /\ sjs' = "rejected"
    /\ failed' = Append(failed, [op |-> "setJavaScriptEnabled", at |-> Len(calls)])
    /\ stderr' = Append(stderr, "Uncaught")
    /\ pc' = "exited"
    /\ exitCode' = 1
    /\ UNCHANGED <<argv, cwd, calls, docHeight, height, width, stdout, files,
                   thrown>>

----------------------------------------------------------------------------
(* screenshot *)

\* page.screenshot({ path, fullPage, omitBackground })
ScreenshotCall(a) == [op |-> "screenshot", arg |-> [path |-> RenderPath(a)]]

\* const browser = await puppeteer.launch(buildLaunchOptions(argv))
ScreenshotStart ==
    /\ argv.cmd = "screenshot"
    /\ pc = "start"
    /\ calls' = Append(calls, [op |-> "launch", arg |-> Null])
    /\ pc' = "launch"
    /\ UNCHANGED <<argv, cwd, sjs, failed, docHeight, height, width, stdout,
                   stderr, files, thrown, exitCode>>

\* const page = await browser.newPage()
ScreenshotAfterLaunch ==
    /\ argv.cmd = "screenshot"
    /\ pc = "launch"
    /\ calls' = Append(calls, [op |-> "newPage", arg |-> Null])
    /\ pc' = "newPage"
    /\ UNCHANGED <<argv, cwd, sjs, failed, docHeight, height, width, stdout,
                   stderr, files, thrown, exitCode>>

\* the url; if (argv.viewport) { match, or usage error and process.exit(1);
\* setViewport }; otherwise straight on to the cookies and goto
ScreenshotAfterNewPage ==
    /\ argv.cmd = "screenshot"
    /\ pc = "newPage"
    /\ IF Truthy(argv.viewport)
       THEN LET formatMatch == FormatMatch(argv.viewport.s)
            IN IF ~formatMatch.matched
               THEN /\ stderr' = Append(stderr, "Option --viewport must be in the format ###x###")
                    /\ pc' = "exited"
                    /\ exitCode' = 1
                    /\ UNCHANGED <<calls, thrown>>
               ELSE /\ stderr' = Append(stderr, "Setting viewport")
                    /\ calls' = Append(calls,
                          [op |-> "setViewport",
                           arg |-> [width |-> ParseInt(formatMatch.width),
                                    height |-> ParseInt(formatMatch.height)]])
                    /\ pc' = "setViewport"
                    /\ UNCHANGED <<thrown, exitCode>>
       ELSE CookieThenGoto(calls, stderr)
    /\ UNCHANGED <<argv, cwd, sjs, failed, docHeight, height, width, stdout,
                   files>>

\* await page.setViewport(...) resolved: the cookies, goto
ScreenshotAfterSetViewport ==
    /\ pc = "setViewport"
    /\ CookieThenGoto(calls, stderr)
    /\ UNCHANGED <<argv, cwd, sjs, failed, docHeight, height, width, stdout,
                   files>>

\* await page.goto(...) resolved, the page is loaded: page.screenshot
ScreenshotAfterGoto ==
    /\ argv.cmd = "screenshot"
    /\ pc = "goto"
    /\ \E h \in Heights : docHeight' = h
    /\ stderr' = Append(stderr, WritingLine(argv))
    /\ calls' = Append(calls, ScreenshotCall(argv))
    /\ pc' = "screenshot"
    /\ UNCHANGED <<argv, cwd, sjs, failed, height, width, stdout, files,
                   thrown, exitCode>>

ScreenshotAfterScreenshot == AfterRender("screenshot")

----------------------------------------------------------------------------

\* the engine calls issued and not yet settled: the one the command awaits,
\* and setJavaScriptEnabled while its promise is pending
InFlight ==
    (IF pc \in Awaited THEN {pc} ELSE {})
    \cup (IF sjs = "pending" THEN {"setJavaScriptEnabled"} ELSE {})

Next ==
    \/ PrintStart
    \/ PrintAfterLaunch
    \/ PrintAfterNewPage
    \/ PrintAfterGoto
    \/ PrintAfterEvalHeight
    \/ PrintAfterEvalScripts
    \/ PrintAfterEvalInject
    \/ PrintAfterEmulateMedia
    \/ PrintAfterPdf
    \/ SjsResolve
    \/ SjsRejectWarn
    \/ SjsRejectCrash
    \/ ScreenshotStart
    \/ ScreenshotAfterLaunch
    \/ ScreenshotAfterNewPage
    \/ ScreenshotAfterSetViewport
    \/ ScreenshotAfterGoto
    \/ ScreenshotAfterScreenshot
    \/ AfterSetCookie
    \/ AfterStdoutWrite
    \/ AfterClose
    \/ Reject

Spec == Init /\ [][Next]_vars

----------------------------------------------------------------------------
(* Vocabulary of the properties *)

CallsOf(op) == {i \in DOMAIN calls : calls[i].op = op}
RenderCalls == CallsOf("pdf") \cup CallsOf("screenshot")
FileScheme == <<"f","i","l","e",":","/","/">>

\* an output path was given: a non-empty string (the empty string names no file)
OutputGiven == argv.output.t = "string" /\ argv.output.s # <<>>

\* the render call has resolved
RenderDone == pc = "stdoutWrite" \/ CallsOf("close") # {}

\* the values of the --cookie options, in command-line order
CookieValues ==
    CASE argv.cookie.t = "string" -> <<argv.cookie>>
      [] argv.cookie.t = "array" -> argv.cookie.a
      [] OTHER -> <<>>

HasDelimiter(v) == \E i \in DOMAIN v.s : v.s[i] = ":"

\* record c is string v split at its first ':'
SplitsAtFirstColon(c, v) ==
    /\ c.name.s \o <<":">> \o c.value.s = v.s
    /\ \A i \in DOMAIN c.name.s : c.name.s[i] # ":"

NoOutputProduced ==
    /\ CallsOf("goto") = {}
    /\ RenderCalls = {}
    /\ stdout = <<>>
    /\ files = {}

----------------------------------------------------------------------------
(* C1 *)

\* C1: in every run that reaches the render step, with an output path the
\* render call is given that path, the file is written once the call
\* resolves and nothing is ever written to standard output; without one the
\* render call is given no path (null), no file is written and the buffer is
\* written to standard output once the call resolves.  Never both sinks.
C1_OutputSink ==
    /\ \A i \in RenderCalls :
          calls[i].arg.path = (IF OutputGiven THEN argv.output ELSE Null)
    /\ OutputGiven =>
          /\ stdout = <<>>
          /\ files \subseteq {argv.output}
          /\ RenderDone => files = {argv.output}
    /\ ~OutputGiven =>
          /\ files = {}
          /\ Len(stdout) <= 1
          /\ RenderDone => \E i \in RenderCalls : stdout = <<[kind |-> calls[i].op]>>
    /\ ~(stdout # <<>> /\ files # {})

C1_Witness ==
    /\ pc = "exited"
    /\ exitCode = 0
    /\ OutputGiven
    /\ files = {argv.output}
    /\ stdout = <<>>

----------------------------------------------------------------------------
(* C2 *)

\* C2: given n >= 1 --cookie values that each contain ':', cookie parsing
\* does not fail, every set-cookies call carries exactly n records, the i-th
\* being the i-th value split at its first ':', and navigation is preceded
\* by a set-cookies call.
C2_Original ==
    (Len(CookieValues) >= 1 /\ \A i \in DOMAIN CookieValues : HasDelimiter(CookieValues[i]))
    => /\ thrown = "none"
       /\ \A k \in CallsOf("setCookie") :
             /\ Len(calls[k].arg) = Len(CookieValues)
             /\ \A i \in DOMAIN CookieValues :
                   SplitsAtFirstColon(calls[k].arg[i], CookieValues[i])
       /\ CallsOf("goto") # {} => CallsOf("setCookie") # {}

----------------------------------------------------------------------------
(* C3 *)

\* C3: if some supplied --cookie value contains no ':', the run never
\* navigates, renders or writes output, and it ends with a non-zero status.
C3_Original ==
    (\E i \in DOMAIN CookieValues : ~HasDelimiter(CookieValues[i]))
    => /\ NoOutputProduced
       /\ pc = "exited" => exitCode # 0

----------------------------------------------------------------------------
(* C4 *)

\* C4: in screenshot, a supplied --viewport string that matches
\* <digits>[xX]<digits> has set-viewport called with the integer width and
\* height before navigation; a supplied string that does not match ends the
\* run with a non-zero status and no navigate, render or output write; the
\* default size (no set-viewport call) is used only when none is supplied.
C4_Original ==
    argv.cmd = "screenshot" =>
       /\ argv.viewport.t = "string" =>
             IF FormatMatch(argv.viewport.s).matched
             THEN \A g \in CallsOf("goto") :
                     \E v \in CallsOf("setViewport") :
                        /\ v < g
                        /\ calls[v].arg =
                              [width |-> ParseInt(FormatMatch(argv.viewport.s).width),
                               height |-> ParseInt(FormatMatch(argv.viewport.s).height)]
             ELSE /\ NoOutputProduced
                  /\ pc = "exited" => exitCode # 0
       /\ argv.viewport.t # "string" => CallsOf("setViewport") = {}

----------------------------------------------------------------------------
(* C5 *)

\* C5: once an engine step has failed the handler has caught it: the process
\* has ended with status 1, the last line on standard error is the command's
\* prefixed report, and no engine call was issued after the failure; a
\* process that ended with status 0 had no failed step.
C5_Original ==
    /\ \A i \in DOMAIN failed :
          /\ pc = "exited"
          /\ exitCode = 1
          /\ stderr # <<>> /\ stderr[Len(stderr)] = FailPrefix(argv)
          /\ Len(calls) = failed[i].at
    /\ (pc = "exited" /\ exitCode = 0) => failed = <<>>

----------------------------------------------------------------------------
(* C6 *)

\* C6: with --format auto the PDF export gets no format, width 1366 and a
\* height equal to the document height of the page as rendered; with any
\* other format it gets that format, no width or height, and the height is
\* never measured.
C6_Original ==
    \A i \in CallsOf("pdf") :
       IF argv.format = Auto
       THEN /\ calls[i].arg.format = Undefined
            /\ calls[i].arg.width = Str(<<"1","3","6","6">>)
            /\ calls[i].arg.height = Num(docHeight)
       ELSE /\ calls[i].arg.format = argv.format
            /\ calls[i].arg.width = Undefined
            /\ calls[i].arg.height = Undefined
            /\ \A j \in CallsOf("evaluate") : calls[j].arg.script # "Math.max(heights)"

----------------------------------------------------------------------------
(* C7 *)

\* C7 as stated: navigate gets the url argument unchanged when is-url
\* recognises it, and otherwise a file:// address, never the raw path.
C7_Original ==
    \A g \in CallsOf("goto") :
       IF isUrl(argv.url.s)
       THEN calls[g].arg = argv.url
       ELSE StartsWith(calls[g].arg.s, FileScheme) /\ calls[g].arg # argv.url

\* C7, amended: when is-url recognises the argument, navigate gets its
\* re-serialisation by url-parse: scheme and host come out lower-cased and
\* the rest is kept, so the address equals the argument only up to that
\* letter case; otherwise navigate gets file:// followed by the
\* percent-encoded path, resolved against the working directory when
\* relative, and never the raw path.
C7_NavigateAddress ==
    \A g \in CallsOf("goto") :
       LET arg == argv.url.s
           nav == calls[g].arg.s
           \* the offsets of scheme, slashes and host
           InAuthority(i) ==
               \A j \in (AfterProtocol(arg) + 3)..i : arg[j] \notin {"/", "?", "#"}
       IN IF isUrl(arg)
          THEN /\ Len(nav) = Len(arg)
               /\ \A i \in DOMAIN arg :
                     nav[i] = (IF InAuthority(i) THEN LowerChar(arg[i]) ELSE arg[i])
          ELSE LET abs == IF arg[1] = "/" THEN arg
                          ELSE IF cwd = <<"/">> THEN cwd \o arg
                          ELSE cwd \o <<"/">> \o arg
               IN /\ nav = FileScheme \o Concat([i \in DOMAIN abs |-> EncodeChar(abs[i])])
                  /\ nav # arg

C7_Witness ==
    \E g \in CallsOf("goto") :
       /\ isUrl(argv.url.s)
       /\ calls[g].arg # argv.url
       /\ ToLowerCase(calls[g].arg.s) = ToLowerCase(argv.url.s)

----------------------------------------------------------------------------
(* C8 *)

\* C8: every cookie record passed to set-cookies carries the address that
\* is passed to navigate in that run.
C8_Original ==
    \A k \in CallsOf("setCookie") : \A g \in CallsOf("goto") :
       \A i \in DOMAIN calls[k].arg : calls[k].arg[i].url = calls[g].arg

----------------------------------------------------------------------------
(* C9 *)

\* C9: at no point in a run are two engine calls in flight at once.
C9_Original == Cardinality(InFlight) <= 1

----------------------------------------------------------------------------
(* C10 *)

\* C10: a run launches one browser and opens one page; close is issued at
\* most once, nothing is issued after it, it is issued in every run that
\* ends with every step succeeded, and never after a step failed or the run
\* was aborted for invalid input.
C10_Original ==
    /\ Cardinality(CallsOf("launch")) = (IF pc = "start" THEN 0 ELSE 1)
    /\ Cardinality(CallsOf("newPage")) <= 1
    /\ CallsOf("goto") # {} => Cardinality(CallsOf("newPage")) = 1
    /\ Cardinality(CallsOf("close")) <= 1
    /\ \A c \in CallsOf("close") :
          /\ c = Len(calls)
          /\ \A i \in DOMAIN failed : failed[i].at >= c
          /\ thrown = "none"
    /\ (pc = "exited" /\ exitCode = 0 /\ failed = <<>>) => CallsOf("close") # {}
    /\ (pc = "exited" /\ exitCode = 1 /\ failed = <<>>) => CallsOf("close") = {}

====
